---- MODULE Spec2Model ----
(***************************************************************************)
(* Model of sqrt/main.cpp: the bit-level square-root approximation         *)
(* (sqrt_approx), the two library strategies (sqrt_1, sqrt_2), the Newton  *)
(* refinement (sqrt_3), the reporter (print_result) and the benchmark      *)
(* loops of main.                                                          *)
(*                                                                         *)
(* A 32-bit word (uint32_t, or the bits of a float) is a record            *)
(* [hi, lo] of two 16-bit halves, because the model checker's integers are *)
(* 32-bit signed: every operation below stays under 2^31.                  *)
(*                                                                         *)
(* Floating point is IEEE-754 binary32 with round-to-nearest-even, float   *)
(* expressions evaluated in float (FLT_EVAL_METHOD 0) and double            *)
(* sub-expressions rounded to float on assignment or return.  Every NaN    *)
(* produced by an arithmetic operation is represented by the one pattern   *)
(* QNaN: the sign and payload of a generated NaN are not tracked.          *)
(***************************************************************************)
EXTENDS Integers, Sequences, FiniteSets, TLC

(***************************************************************************)
(* 32-bit unsigned words                                                   *)
(***************************************************************************)
Half == 2 ^ 16

W(h, l) == [hi |-> h, lo |-> l]

\* a - b in uint32_t arithmetic (wraps modulo 2^32)
Sub32(a, b) ==
    LET borrow == IF a.lo < b.lo THEN 1 ELSE 0
    IN  W((a.hi - b.hi - borrow) % Half, (a.lo - b.lo) % Half)

\* a + b in uint32_t arithmetic (wraps modulo 2^32)
Add32(a, b) ==
    LET carry == (a.lo + b.lo) \div Half
    IN  W((a.hi + b.hi + carry) % Half, (a.lo + b.lo) % Half)

\* a >> 1 on uint32_t: a logical shift, the top bit becomes 0
Shr32(a) == W(a.hi \div 2, (a.lo \div 2) + (a.hi % 2) * 32768)

\* the int literal 1 << n (0 <= n <= 30) converted to uint32_t
Shl1(n) == IF n < 16 THEN W(0, 2 ^ n) ELSE W(2 ^ (n - 16), 0)

(***************************************************************************)
(* IEEE-754 binary32: fields of a bit pattern                              *)
(***************************************************************************)
SignOf(b) == b.hi \div 32768
ExpOf(b)  == (b.hi \div 128) % 256
MantOf(b) == (b.hi % 128) * Half + b.lo

Pack(s, e, m) == W(s * 32768 + e * 128 + (m \div Half), m % Half)

IsNaN(b)  == ExpOf(b) = 255 /\ MantOf(b) # 0
IsInf(b)  == ExpOf(b) = 255 /\ MantOf(b) = 0
IsZero(b) == ExpOf(b) = 0 /\ MantOf(b) = 0

QNaN      == Pack(0, 255, 4194304)
Inf(s)    == Pack(s, 255, 0)
Zero(s)   == Pack(s, 0, 0)

\* the float comparison f < 0: false for NaN and for both zeros
LessThanZero(b) == SignOf(b) = 1 /\ ~IsNaN(b) /\ ~IsZero(b)

\* a finite non-zero float is Sig * 2^Ex, Sig < 2^24
Sig(b) == IF ExpOf(b) = 0 THEN MantOf(b) ELSE 8388608 + MantOf(b)
Ex(b)  == (IF ExpOf(b) = 0 THEN 1 ELSE ExpOf(b)) - 150

\* position of the highest set bit of m > 0
RECURSIVE Msb(_)
Msb(m) == IF m < 2 THEN 0 ELSE 1 + Msb(m \div 2)

\* the float nearest to (m + f) * 2^e, 0 <= m < 2^30, where f is 0 or, when
\* sticky, some fraction strictly between 0 and 1; ties go to the even significand
RoundPack(s, m, e, sticky) ==
    IF m = 0 THEN Zero(s)
    ELSE
    LET p     == Msb(m)
        et    == IF e + p - 23 < -149 THEN -149 ELSE e + p - 23
        shift == et - e
        kept0 == IF shift <= 0 THEN m * 2 ^ (-shift)
                 ELSE IF shift > 30 THEN 0 ELSE m \div 2 ^ shift
        rem   == IF shift <= 0 THEN 0
                 ELSE IF shift > 30 THEN 1 ELSE m % 2 ^ shift
        half  == IF shift <= 0 THEN 1
                 ELSE IF shift > 30 THEN 2 ELSE 2 ^ (shift - 1)
        up    == /\ shift > 0
                 /\ \/ rem > half
                    \/ rem = half /\ (sticky \/ kept0 % 2 = 1)
        kept1 == IF up THEN kept0 + 1 ELSE kept0
        kept  == IF kept1 = 16777216 THEN 8388608 ELSE kept1
        ex    == IF kept1 = 16777216 THEN et + 1 ELSE et
    IN  IF kept >= 8388608
        THEN IF ex + 150 >= 255 THEN Inf(s) ELSE Pack(s, ex + 150, kept - 8388608)
        ELSE Pack(s, 0, kept)

\* a 24-bit significand and exponent for a finite non-zero float (subnormals
\* are shifted up): value = NSig * 2^NEx with 2^23 <= NSig < 2^24
NShift(b) == 23 - Msb(Sig(b))
NSig(b)   == Sig(b) * 2 ^ NShift(b)
NEx(b)    == Ex(b) - NShift(b)

\* n further quotient bits of r / d by long division, r < d < 2^24;
\* the result is <<quotient, remainder>>
RECURSIVE LongDiv(_, _, _, _)
LongDiv(r, d, q, n) ==
    IF n = 0 THEN <<q, r>>
    ELSE IF 2 * r >= d THEN LongDiv(2 * r - d, d, 2 * q + 1, n - 1)
         ELSE LongDiv(2 * r, d, 2 * q, n - 1)

\* a / b on floats
FDiv(a, b) ==
    LET s == (SignOf(a) + SignOf(b)) % 2
    IN  IF IsNaN(a) \/ IsNaN(b) THEN QNaN
        ELSE IF IsInf(a) THEN (IF IsInf(b) THEN QNaN ELSE Inf(s))
        ELSE IF IsInf(b) THEN Zero(s)
        ELSE IF IsZero(b) THEN (IF IsZero(a) THEN QNaN ELSE Inf(s))
        ELSE IF IsZero(a) THEN Zero(s)
        ELSE
        LET ma == NSig(a)
            mb == NSig(b)
            qr == IF ma >= mb THEN LongDiv(ma - mb, mb, 1, 25)
                  ELSE LongDiv(ma, mb, 0, 26)
            k  == IF ma >= mb THEN 25 ELSE 26
        IN  RoundPack(s, qr[1], NEx(a) - NEx(b) - k, qr[2] # 0)

\* a + b on floats
FAdd(a, b) ==
    IF IsNaN(a) \/ IsNaN(b) THEN QNaN
    ELSE IF IsInf(a) THEN (IF IsInf(b) /\ SignOf(a) # SignOf(b) THEN QNaN ELSE a)
    ELSE IF IsInf(b) THEN b
    ELSE IF IsZero(a) /\ IsZero(b)
         THEN (IF SignOf(a) = 1 /\ SignOf(b) = 1 THEN Zero(1) ELSE Zero(0))
    ELSE IF IsZero(a) THEN b
    ELSE IF IsZero(b) THEN a
    ELSE
    LET big   == IF Ex(a) >= Ex(b) THEN a ELSE b
        small == IF Ex(a) >= Ex(b) THEN b ELSE a
        diff  == Ex(big) - Ex(small)
        sh    == IF diff < 5 THEN diff ELSE 5
        down  == diff - sh
        A     == Sig(big) * 2 ^ sh
        B     == IF down >= 24 THEN 0 ELSE Sig(small) \div 2 ^ down
        lost  == IF down >= 24 THEN TRUE ELSE Sig(small) % 2 ^ down # 0
        e     == Ex(big) - sh
    IN  IF SignOf(big) = SignOf(small)
        THEN RoundPack(SignOf(big), A + B, e, lost)
        ELSE IF A = B /\ ~lost THEN Zero(0)
        ELSE IF A > B \/ (A = B /\ lost)
             THEN RoundPack(SignOf(big), IF lost THEN A - B - 1 ELSE A - B, e, lost)
             ELSE RoundPack(SignOf(small), B - A, e, lost)

\* the float conversion of the double product 0.5 * a, a a float
FHalf(a) ==
    IF IsNaN(a) THEN QNaN
    ELSE IF IsInf(a) \/ IsZero(a) THEN a
    ELSE RoundPack(SignOf(a), Sig(a), Ex(a) - 1, FALSE)

\* digit-by-digit square root: the radicand is m (taken two bits at a time
\* from bit pair j down) followed by z zero pairs; <<root, remainder>>
RECURSIVE SqrtDigits(_, _, _, _, _)
SqrtDigits(m, j, z, root, rem) ==
    IF j < 0 /\ z = 0 THEN <<root, rem>>
    ELSE
    LET d  == IF j >= 0 THEN (m \div 4 ^ j) % 4 ELSE 0
        r4 == rem * 4 + d
        t  == root * 4 + 1
        j1 == IF j >= 0 THEN j - 1 ELSE j
        z1 == IF j >= 0 THEN z ELSE z - 1
    IN  IF r4 >= t THEN SqrtDigits(m, j1, z1, root * 2 + 1, r4 - t)
        ELSE SqrtDigits(m, j1, z1, root * 2, r4)

\* the correctly rounded square root of a float
FSqrt(a) ==
    IF IsNaN(a) THEN QNaN
    ELSE IF IsZero(a) THEN a
    ELSE IF SignOf(a) = 1 THEN QNaN
    ELSE IF IsInf(a) THEN a
    ELSE
    LET odd == NEx(a) % 2 = 1
        m   == IF odd THEN 2 * NSig(a) ELSE NSig(a)
        e   == IF odd THEN NEx(a) - 1 ELSE NEx(a)
        rr  == SqrtDigits(m, 12, 14, 0, 0)
    IN  RoundPack(0, rr[1], (e \div 2) - 14, rr[2] # 0)

(***************************************************************************)
(* Bounds of the model                                                     *)
(***************************************************************************)
\* exponent fields 0..ExpEdge and 255-ExpEdge..255 are tried
ExpEdge == 1
\* exponent fields 127-ExpMid..127+ExpMid are tried (132 is the field of 42.0)
ExpMid == 5
\* mantissa fields 0..MantEdge and 2^23-1-MantEdge..2^23-1 are tried
MantEdge == 1
\* main is run with every repetition count 1..MaxRuns
MaxRuns == 2
\* Clock::now() returns a reading in 0..MaxClock
MaxClock == 1
\* main is started with argc in 1..MaxArgc
MaxArgc == 2

\* the constants of main
FixedNum == 42
FixedRuns == 10000

Exps  == (0 .. ExpEdge) \cup ((255 - ExpEdge) .. 255)
            \cup ((127 - ExpMid) .. (127 + ExpMid))
Mants == (0 .. MantEdge) \cup ((8388607 - MantEdge) .. 8388607)
            \cup {4194304, 2621440}
\* the float arguments the four functions are called with
FloatInputs == {Pack(s, e, m) : s \in {0, 1}, e \in Exps, m \in Mants}
\* the int8_t values main is run with
IntInputs == {-128, -1, 0, FixedNum, 127}
ClockValues == 0 .. MaxClock
Durations == (-MaxClock) .. MaxClock

NoWord == W(-1, -1)
NoTime == 0 - 1

VARIABLES
    \* one call of one of the four functions, statement by statement
    fn,         \* the function called: "sqrt_approx", "sqrt_1", "sqrt_2", "sqrt_3"
    arg,        \* the bits of the float argument num
    fpc,        \* the statement the call is at
    val,        \* sqrt_approx: the union val, as val.i
    x,          \* sqrt_3: the local x
    ret,        \* the bits of the float returned, NoWord while none
    outcome,    \* "running", "returned" or "InvalidArgument"
    log,        \* the statements executed so far, in order
    \* main
    argc,
    num,
    test_runs,
    pc,
    block,      \* which of the three benchmark blocks: 1, 2, 3
    i,
    total_runtime_ns,
    result,
    time_start,
    time_stop,
    now_values, \* the readings Clock::now() can return in this run
    out,        \* the lines written to standard output
    exit,       \* "running", "exit0" (return 0) or "terminate" (uncaught exception)
    calls,      \* per block: strategy calls made
    reads,      \* per block: clock reads made
    adds,       \* per block: durations added to total_runtime_ns
    measured    \* how many times the block measured each duration

fnvars   == <<fn, arg, fpc, val, x, ret, outcome, log>>
mainvars == <<argc, num, test_runs, pc, block, i, total_runtime_ns, result,
              time_start, time_stop, now_values, out, exit, calls, reads,
              adds, measured>>
vars     == <<fnvars, mainvars>>

(***************************************************************************)
(* The statements of the four functions                                    *)
(***************************************************************************)
\* val.i -= 1 << 23
ApproxSub(v) == Sub32(v, Shl1(23))
\* a mutant of ApproxShr: an arithmetic shift, as if val.i were signed
ApproxShrArithmetic(v) ==
    W((v.hi \div 2) + (v.hi \div 32768) * 32768, (v.lo \div 2) + (v.hi % 2) * 32768)

\* val.i >>= 1
ApproxShr(v) == Shr32(v)
\* val.i += 1 << 29
ApproxAdd(v) == Add32(v, Shl1(29))
\* pow(num, 0.5) converted to float: pow(-0, 0.5) is +0
Pow05(n) == IF IsZero(n) THEN Zero(0) ELSE FSqrt(n)
\* 0.5 * (x + (num / x)) converted to float
NewtonStep(n, xx) == FHalf(FAdd(xx, FDiv(n, xx)))

Throw     == [thrown |-> TRUE, value |-> NoWord]
Value(v)  == [thrown |-> FALSE, value |-> v]

\* the four functions as values: what a whole call gives
sqrt_approx(n) ==
    IF LessThanZero(n) THEN Throw
    ELSE Value(ApproxAdd(ApproxShr(ApproxSub(n))))

sqrt_1(n) == IF LessThanZero(n) THEN Throw ELSE Value(Pow05(n))

sqrt_2(n) == IF LessThanZero(n) THEN Throw ELSE Value(FSqrt(n))

sqrt_3(n) ==
    IF LessThanZero(n) THEN Throw
    ELSE LET s == sqrt_approx(n)
         IN  IF s.thrown THEN Throw
             ELSE Value(NewtonStep(n, NewtonStep(n, s.value)))

(***************************************************************************)
(* One call, statement by statement                                        *)
(***************************************************************************)
Fns == {"sqrt_approx", "sqrt_1", "sqrt_2", "sqrt_3"}

Entry(f) == CASE f = "sqrt_approx" -> "approx_check"
              [] f = "sqrt_1"      -> "sqrt1_check"
              [] f = "sqrt_2"      -> "sqrt2_check"
              [] f = "sqrt_3"      -> "sqrt3_check"

\* a throw statement: nothing in the file catches, so the call ends there
Raise(stmt) ==
    /\ outcome' = "InvalidArgument"
    /\ fpc' = "done"
    /\ log' = Append(log, stmt)
    /\ UNCHANGED <<fn, arg, val, x, ret>>

\* a statement that goes on to the statement next
Goto(stmt, next) ==
    /\ fpc' = next
    /\ log' = Append(log, stmt)
    /\ UNCHANGED <<fn, arg, outcome>>

\* the return of the function that was called
Return(stmt, v) ==
    /\ ret' = v
    /\ outcome' = "returned"
    /\ fpc' = "done"
    /\ log' = Append(log, stmt)
    /\ UNCHANGED <<fn, arg>>

\* a mutant of ApproxCheck: the check is missing
ApproxCheckMissing ==
    /\ fpc = "approx_check"
    /\ Goto("approx:check", "approx_init")
    /\ UNCHANGED <<val, x, ret>>
    /\ UNCHANGED mainvars

\* sqrt_approx, line 23: if(num < 0) throw
ApproxCheck ==
    /\ fpc = "approx_check"
    /\ IF LessThanZero(arg)
       THEN Raise("approx:throw")
       ELSE Goto("approx:check", "approx_init") /\ UNCHANGED <<val, x, ret>>
    /\ UNCHANGED mainvars

\* sqrt_approx, line 26: union { float f; uint32_t i; } val = {num}.  val.i is
\* then read while val.f is the active member; g++, clang++ and MSVC all
\* define that read as the bits of val.f, so val.i is the bits of num
ApproxInit ==
    /\ fpc = "approx_init"
    /\ val' = arg
    /\ Goto("approx:init", "approx_sub")
    /\ UNCHANGED <<x, ret>>
    /\ UNCHANGED mainvars

\* sqrt_approx, line 28
ApproxSubStep ==
    /\ fpc = "approx_sub"
    /\ val' = ApproxSub(val)
    /\ Goto("approx:sub", "approx_shr")
    /\ UNCHANGED <<x, ret>>
    /\ UNCHANGED mainvars

\* sqrt_approx, line 29
ApproxShrStep ==
    /\ fpc = "approx_shr"
    /\ val' = ApproxShr(val)
    /\ Goto("approx:shr", "approx_add")
    /\ UNCHANGED <<x, ret>>
    /\ UNCHANGED mainvars

\* sqrt_approx, line 30
ApproxAddStep ==
    /\ fpc = "approx_add"
    /\ val' = ApproxAdd(val)
    /\ Goto("approx:add", "approx_return")
    /\ UNCHANGED <<x, ret>>
    /\ UNCHANGED mainvars

\* sqrt_approx, line 32: return val.f, to sqrt_3 (line 82) or to the caller
ApproxReturn ==
    /\ fpc = "approx_return"
    /\ IF fn = "sqrt_3"
       THEN /\ x' = val
            /\ Goto("approx:return", "sqrt3_iter1")
            /\ UNCHANGED <<val, ret>>
       ELSE Return("approx:return", val) /\ UNCHANGED <<val, x>>
    /\ UNCHANGED mainvars

\* sqrt_1, line 45
Sqrt1Check ==
    /\ fpc = "sqrt1_check"
    /\ IF LessThanZero(arg)
       THEN Raise("sqrt_1:throw")
       ELSE Goto("sqrt_1:check", "sqrt1_return") /\ UNCHANGED <<val, x, ret>>
    /\ UNCHANGED mainvars

\* sqrt_1, line 48
Sqrt1Return ==
    /\ fpc = "sqrt1_return"
    /\ Return("sqrt_1:pow", Pow05(arg))
    /\ UNCHANGED <<val, x>>
    /\ UNCHANGED mainvars

\* a mutant of Sqrt2Check: the check is missing
Sqrt2CheckMissing ==
    /\ fpc = "sqrt2_check"
    /\ Goto("sqrt_2:check", "sqrt2_return")
    /\ UNCHANGED <<val, x, ret>>
    /\ UNCHANGED mainvars

\* sqrt_2, line 61
Sqrt2Check ==
    /\ fpc = "sqrt2_check"
    /\ IF LessThanZero(arg)
       THEN Raise("sqrt_2:throw")
       ELSE Goto("sqrt_2:check", "sqrt2_return") /\ UNCHANGED <<val, x, ret>>
    /\ UNCHANGED mainvars

\* sqrt_2, line 64
Sqrt2Return ==
    /\ fpc = "sqrt2_return"
    /\ Return("sqrt_2:sqrt", FSqrt(arg))
    /\ UNCHANGED <<val, x>>
    /\ UNCHANGED mainvars

\* sqrt_3, line 79
Sqrt3Check ==
    /\ fpc = "sqrt3_check"
    /\ IF LessThanZero(arg)
       THEN Raise("sqrt_3:throw")
       ELSE Goto("sqrt_3:check", "sqrt3_call") /\ UNCHANGED <<val, x, ret>>
    /\ UNCHANGED mainvars

\* sqrt_3, line 82: the call sqrt_approx(num)
Sqrt3Call ==
    /\ fpc = "sqrt3_call"
    /\ Goto("sqrt_3:call", "approx_check")
    /\ UNCHANGED <<val, x, ret>>
    /\ UNCHANGED mainvars

\* sqrt_3, line 83: the 1st iteration
Sqrt3Iter1 ==
    /\ fpc = "sqrt3_iter1"
    /\ x' = NewtonStep(arg, x)
    /\ Goto("sqrt_3:update", "sqrt3_return")
    /\ UNCHANGED <<val, ret>>
    /\ UNCHANGED mainvars

\* a mutant of Sqrt3Return: x is returned after the 1st iteration only
Sqrt3ReturnNoUpdate ==
    /\ fpc = "sqrt3_return"
    /\ Return("sqrt_3:return", x)
    /\ UNCHANGED <<val, x>>
    /\ UNCHANGED mainvars

\* sqrt_3, line 85: the 2nd iteration, returned
Sqrt3Return ==
    /\ fpc = "sqrt3_return"
    /\ Return("sqrt_3:update", NewtonStep(arg, x))
    /\ UNCHANGED <<val, x>>
    /\ UNCHANGED mainvars

MainIdle ==
    /\ argc = 1 /\ num = FixedNum /\ test_runs = 1
    /\ pc = "idle" /\ block = 1 /\ i = 0
    /\ total_runtime_ns = 0 /\ result = NoWord
    /\ time_start = NoTime /\ time_stop = NoTime
    /\ now_values = {}
    /\ out = <<>> /\ exit = "running"
    /\ calls = [b \in 1 .. 3 |-> 0]
    /\ reads = [b \in 1 .. 3 |-> 0]
    /\ adds = [b \in 1 .. 3 |-> 0]
    /\ measured = [d \in Durations |-> 0]

InitFn ==
    /\ fn \in Fns
    /\ arg \in FloatInputs
    /\ fpc = Entry(fn)
    /\ val = NoWord /\ x = NoWord /\ ret = NoWord
    /\ outcome = "running"
    /\ log = <<>>
    /\ MainIdle

NextFn ==
    \/ ApproxCheck \/ ApproxInit \/ ApproxSubStep \/ ApproxShrStep
    \/ ApproxAddStep \/ ApproxReturn
    \/ Sqrt1Check \/ Sqrt1Return
    \/ Sqrt2Check \/ Sqrt2Return
    \/ Sqrt3Check \/ Sqrt3Call \/ Sqrt3Iter1 \/ Sqrt3Return

\* one call of one function on one float
SpecFn == InitFn /\ [][NextFn]_vars

(***************************************************************************)
(* main                                                                    *)
(***************************************************************************)
\* (float)num for an int8_t num: exact
IntToFloat(n) ==
    IF n = 0 THEN Zero(0)
    ELSE IF n < 0 THEN RoundPack(1, -n, 0, FALSE)
    ELSE RoundPack(0, n, 0, FALSE)

\* a / b on integers, b > 0: the quotient is truncated toward zero
TruncDiv(a, b) == IF a >= 0 THEN a \div b ELSE -((-a) \div b)

\* lines 123, 139, 155: the nanoseconds from time_start to time_stop
Elapsed(start, stop) == stop - start

\* lines 123, 139, 155: total_runtime_ns += the duration
AddDuration(total, start, stop) == total + Elapsed(start, stop)

\* lines 127, 143, 159: total_runtime_ns / test_runs
Average(total, runs) == TruncDiv(total, runs)

\* a mutant of Strategy: the second and third blocks call each other's function
StrategySwapped(b, n) == CASE b = 1 -> sqrt_1(n)
                           [] b = 2 -> sqrt_3(n)
                           [] b = 3 -> sqrt_2(n)

\* lines 121, 137, 153: which function a block calls
Strategy(b, n) == CASE b = 1 -> sqrt_1(n)
                    [] b = 2 -> sqrt_2(n)
                    [] b = 3 -> sqrt_3(n)

\* lines 127, 143, 159: the label a block passes to print_result
Label(b) == CASE b = 1 -> "math.h pow function"
              [] b = 2 -> "cmath sqrt function"
              [] b = 3 -> "Newton's Method"

Line(kind, method, n, r, t) ==
    [kind |-> kind, method |-> method, num |-> n, result |-> r, runtime |-> t]

BlankLine == Line("blank", "", 0, NoWord, 0)

\* the four printf of print_result; the runtime line shows the argument
\* runtime through %lu
print_result(method, n, r, runtime) ==
    << BlankLine,
       Line("label", method, 0, NoWord, 0),
       Line("sqrt", "", n, r, 0),
       Line("runtime", "", 0, NoWord, runtime) >>

Bump(f, b) == [f EXCEPT ![b] = @ + 1]

\* a mutant of BlockEnter: the blocks share one total, set to 0 once
BlockEnterKeepsTotal ==
    /\ pc = "block_enter"
    /\ result' = NoWord
    /\ i' = 0
    /\ pc' = "loop_test"
    /\ measured' = [d \in Durations |-> 0]
    /\ UNCHANGED <<argc, num, test_runs, block, total_runtime_ns, time_start,
                   time_stop, now_values, out, exit, calls, reads, adds>>
    /\ UNCHANGED fnvars

\* lines 116-118, 132-134, 148-150: a block's total and result, and int i = 0;
\* result has no value until the first call returns (test_runs >= 1 here, so
\* it is never read without one)
BlockEnter ==
    /\ pc = "block_enter"
    /\ total_runtime_ns' = 0
    /\ result' = NoWord
    /\ i' = 0
    /\ pc' = "loop_test"
    /\ measured' = [d \in Durations |-> 0]
    /\ UNCHANGED <<argc, num, test_runs, block, time_start, time_stop,
                   now_values, out, exit, calls, reads, adds>>
    /\ UNCHANGED fnvars

\* a mutant of LoopTest: i <= test_runs
LoopTestOffByOne ==
    /\ pc = "loop_test"
    /\ pc' = IF i <= test_runs THEN "time_start" ELSE "print"
    /\ UNCHANGED <<argc, num, test_runs, block, i, total_runtime_ns, result,
                   time_start, time_stop, now_values, out, exit, calls, reads,
                   adds, measured>>
    /\ UNCHANGED fnvars

\* lines 118, 134, 150: i < test_runs
LoopTest ==
    /\ pc = "loop_test"
    /\ pc' = IF i < test_runs THEN "time_start" ELSE "print"
    /\ UNCHANGED <<argc, num, test_runs, block, i, total_runtime_ns, result,
                   time_start, time_stop, now_values, out, exit, calls, reads,
                   adds, measured>>
    /\ UNCHANGED fnvars

\* lines 120, 136, 152: auto time_start = Clock::now()
TimeStart ==
    /\ pc = "time_start"
    /\ \E t \in now_values : time_start' = t
    /\ reads' = Bump(reads, block)
    /\ pc' = "call"
    /\ UNCHANGED <<argc, num, test_runs, block, i, total_runtime_ns, result,
                   time_stop, now_values, out, exit, calls, adds, measured>>
    /\ UNCHANGED fnvars

\* a mutant of Call: the exception is caught and the loop goes on
CallSwallowsThrow ==
    /\ pc = "call"
    /\ calls' = Bump(calls, block)
    /\ LET r == Strategy(block, IntToFloat(num))
       IN  result' = IF r.thrown THEN result ELSE r.value
    /\ pc' = "time_stop"
    /\ UNCHANGED <<argc, num, test_runs, block, i, total_runtime_ns,
                   time_start, time_stop, now_values, out, exit, reads, adds,
                   measured>>
    /\ UNCHANGED fnvars

\* lines 121, 137, 153: result = sqrt_N((float)num); an exception leaves main
\* uncaught and the program is terminated
Call ==
    /\ pc = "call"
    /\ calls' = Bump(calls, block)
    /\ LET r == Strategy(block, IntToFloat(num))
       IN  IF r.thrown
           THEN /\ exit' = "terminate"
                /\ pc' = "done"
                /\ UNCHANGED result
           ELSE /\ result' = r.value
                /\ pc' = "time_stop"
                /\ UNCHANGED exit
    /\ UNCHANGED <<argc, num, test_runs, block, i, total_runtime_ns,
                   time_start, time_stop, now_values, out, reads, adds,
                   measured>>
    /\ UNCHANGED fnvars

\* lines 122, 138, 154: auto time_stop = Clock::now()
TimeStop ==
    /\ pc = "time_stop"
    /\ \E t \in now_values :
          /\ time_stop' = t
          /\ measured' = [measured EXCEPT ![t - time_start] = @ + 1]
    /\ reads' = Bump(reads, block)
    /\ pc' = "accumulate"
    /\ UNCHANGED <<argc, num, test_runs, block, i, total_runtime_ns, result,
                   time_start, now_values, out, exit, calls, adds>>
    /\ UNCHANGED fnvars

\* a mutant of Accumulate: the loop does not count
AccumulateNoIncrement ==
    /\ pc = "accumulate"
    /\ total_runtime_ns' = AddDuration(total_runtime_ns, time_start, time_stop)
    /\ adds' = Bump(adds, block)
    /\ time_start' = NoTime
    /\ time_stop' = NoTime
    /\ pc' = "loop_test"
    /\ UNCHANGED <<argc, num, test_runs, block, i, result, now_values, out,
                   exit, calls, reads, measured>>
    /\ UNCHANGED fnvars

\* lines 123, 139, 155, and the i++ of the loop
Accumulate ==
    /\ pc = "accumulate"
    /\ total_runtime_ns' = AddDuration(total_runtime_ns, time_start, time_stop)
    /\ adds' = Bump(adds, block)
    /\ i' = i + 1
    /\ time_start' = NoTime
    /\ time_stop' = NoTime
    /\ pc' = "loop_test"
    /\ UNCHANGED <<argc, num, test_runs, block, result, now_values, out, exit,
                   calls, reads, measured>>
    /\ UNCHANGED fnvars

\* lines 127, 143, 159: print_result(...), then the next block
PrintResult ==
    /\ pc = "print"
    /\ out' = out \o print_result(Label(block), num, result,
                                  Average(total_runtime_ns, test_runs))
    /\ IF block < 3
       THEN block' = block + 1 /\ pc' = "block_enter"
       ELSE block' = block /\ pc' = "final_newline"
    /\ UNCHANGED <<argc, num, test_runs, i, total_runtime_ns, result,
                   time_start, time_stop, now_values, exit, calls, reads,
                   adds, measured>>
    /\ UNCHANGED fnvars

\* line 162: printf("\n")
FinalNewline ==
    /\ pc = "final_newline"
    /\ out' = Append(out, BlankLine)
    /\ pc' = "return"
    /\ UNCHANGED <<argc, num, test_runs, block, i, total_runtime_ns, result,
                   time_start, time_stop, now_values, exit, calls, reads,
                   adds, measured>>
    /\ UNCHANGED fnvars

\* line 164: return 0
ReturnZero ==
    /\ pc = "return"
    /\ exit' = "exit0"
    /\ pc' = "done"
    /\ UNCHANGED <<argc, num, test_runs, block, i, total_runtime_ns, result,
                   time_start, time_stop, now_values, out, calls, reads,
                   adds, measured>>
    /\ UNCHANGED fnvars

FnIdle ==
    /\ fn = "none" /\ arg = NoWord /\ fpc = "idle"
    /\ val = NoWord /\ x = NoWord /\ ret = NoWord
    /\ outcome = "running" /\ log = <<>>

MainStart ==
    /\ pc = "block_enter" /\ block = 1 /\ i = 0
    /\ total_runtime_ns = 0 /\ result = NoWord
    /\ time_start = NoTime /\ time_stop = NoTime
    /\ out = <<>> /\ exit = "running"
    /\ calls = [b \in 1 .. 3 |-> 0]
    /\ reads = [b \in 1 .. 3 |-> 0]
    /\ adds = [b \in 1 .. 3 |-> 0]
    /\ measured = [d \in Durations |-> 0]

\* main with num and test_runs (lines 111, 112) set to any of the values tried
Init ==
    /\ argc \in 1 .. MaxArgc
    /\ num \in IntInputs
    /\ test_runs \in 1 .. MaxRuns
    /\ now_values = ClockValues
    /\ MainStart
    /\ FnIdle

\* main as written: num = 42, test_runs = 10000; every clock reading is 0
\* (the readings only feed total_runtime_ns, never a branch)
InitFixed ==
    /\ argc \in 1 .. MaxArgc
    /\ num = FixedNum
    /\ test_runs = FixedRuns
    /\ now_values = {0}
    /\ MainStart
    /\ FnIdle

Next ==
    \/ BlockEnter \/ LoopTest \/ TimeStart \/ Call \/ TimeStop
    \/ Accumulate \/ PrintResult \/ FinalNewline \/ ReturnZero

Spec == Init /\ [][Next]_vars

\* the statements of main run one after another until main ends
SpecFixed == InitFixed /\ [][Next]_vars /\ WF_vars(Next)

(***************************************************************************)
(* Properties of one call (checked under SpecFn)                           *)
(***************************************************************************)
\* the float with these bits compares less than 0: the sign bit is set and
\* the value is neither a NaN (0x7F800001..0x7FFFFFFF below the sign) nor -0
Negative(b) ==
    /\ b.hi >= 32768
    /\ ~(b.hi = 32768 /\ b.lo = 0)
    /\ ~(b.hi - 32768 > 32640 \/ (b.hi - 32768 = 32640 /\ b.lo > 0))

\* a 32-bit word as its 32 bits, bit 0 the lowest
BitsOf(w) ==
    [k \in 0 .. 31 |->
        IF k < 16 THEN (w.lo \div 2 ^ k) % 2 ELSE (w.hi \div 2 ^ (k - 16)) % 2]

OneBit(n) == [k \in 0 .. 31 |-> IF k = n THEN 1 ELSE 0]

\* the borrow into bit k of a - b
RECURSIVE BorrowInto(_, _, _)
BorrowInto(a, b, k) ==
    IF k = 0 THEN 0
    ELSE IF a[k - 1] - b[k - 1] - BorrowInto(a, b, k - 1) < 0 THEN 1 ELSE 0

\* the carry into bit k of a + b
RECURSIVE CarryInto(_, _, _)
CarryInto(a, b, k) ==
    IF k = 0 THEN 0
    ELSE IF a[k - 1] + b[k - 1] + CarryInto(a, b, k - 1) > 1 THEN 1 ELSE 0

\* (a - b) mod 2^32, (a + b) mod 2^32 and a >> 1 on bits
MinusBits(a, b) == [k \in 0 .. 31 |-> (a[k] - b[k] - BorrowInto(a, b, k)) % 2]
PlusBits(a, b)  == [k \in 0 .. 31 |-> (a[k] + b[k] + CarryInto(a, b, k)) % 2]
ShiftBits(a)    == [k \in 0 .. 31 |-> IF k = 31 THEN 0 ELSE a[k + 1]]

\* (((b - 2^23) mod 2^32) >> 1) + 2^29 mod 2^32
ApproxBits(b) == PlusBits(ShiftBits(MinusBits(BitsOf(b), OneBit(23))), OneBit(29))

ApproxLog == << "approx:check", "approx:init", "approx:sub", "approx:shr",
                "approx:add", "approx:return" >>

IsPrefix(p, q) == Len(p) <= Len(q) /\ \A k \in 1 .. Len(p) : p[k] = q[k]

\* C1: every call of sqrt_approx with an argument that is not less than 0
\* returns, and the bits returned are (((b - 2^23) mod 2^32) >> 1) + 2^29
\* mod 2^32 of the argument's bits b; the statements run are the check, the
\* initialisation of val, the subtraction, the shift, the addition and the
\* return, in this order and nothing else.
C1_ApproxBitPattern ==
    (fn = "sqrt_approx" /\ ~Negative(arg)) =>
        /\ IsPrefix(log, ApproxLog)
        /\ fpc = "done" =>
              /\ outcome = "returned"
              /\ log = ApproxLog
              /\ BitsOf(ret) = ApproxBits(arg)

\* sqrt_approx(42.0f) has returned 0x40D40000, and sqrt_approx of a
\* subnormal (where the subtraction wraps) has returned too
C1_Witness ==
    /\ fn = "sqrt_approx" /\ outcome = "returned"
    /\ \/ arg = W(16936, 0) /\ ret = W(16596, 0)
       \/ arg = W(0, 1) /\ ret = W(40896, 0)

ThrowLog(f) == CASE f = "sqrt_approx" -> << "approx:throw" >>
                 [] f = "sqrt_1"      -> << "sqrt_1:throw" >>
                 [] f = "sqrt_2"      -> << "sqrt_2:throw" >>
                 [] f = "sqrt_3"      -> << "sqrt_3:throw" >>

\* C2: a call of any of the four functions with num < 0 ends in
\* InvalidArgument and returns no value, and the throw is the only statement
\* executed: val and x are never written, no function is called.
C2_NegativeThrows ==
    (fn \in Fns /\ Negative(arg)) =>
        /\ outcome # "returned"
        /\ ret = NoWord /\ val = NoWord /\ x = NoWord
        /\ IF fpc = "done"
           THEN outcome = "InvalidArgument" /\ log = ThrowLog(fn)
           ELSE outcome = "running" /\ log = <<>> /\ fpc = Entry(fn)

\* sqrt_3(-4.0f) has thrown
C2_Witness ==
    /\ fn = "sqrt_3" /\ arg = W(49280, 0)
    /\ outcome = "InvalidArgument" /\ fpc = "done"

Sqrt3Log == << "sqrt_3:check", "sqrt_3:call" >> \o ApproxLog
                \o << "sqrt_3:update", "sqrt_3:update" >>

\* C8: a call of sqrt_3 with num not less than 0 checks num itself first,
\* then calls sqrt_approx once, then applies x <- 0.5 * (x + num / x) twice,
\* and returns the value of the second update of the seed.
C8_TwoNewtonUpdates ==
    (fn = "sqrt_3" /\ ~Negative(arg)) =>
        /\ IsPrefix(log, Sqrt3Log)
        /\ fpc = "sqrt3_iter1" => BitsOf(x) = ApproxBits(arg)
        /\ fpc = "done" =>
              /\ outcome = "returned"
              /\ log = Sqrt3Log
              /\ BitsOf(val) = ApproxBits(arg)
              /\ x = NewtonStep(arg, val)
              /\ ret = NewtonStep(arg, x)

\* sqrt_3(42.0f) has returned 0x40CF623A, which the first update alone
\* (0x40CF6AB8) does not give
C8_Witness ==
    /\ fn = "sqrt_3" /\ arg = W(16936, 0) /\ outcome = "returned"
    /\ ret = W(16591, 25146) /\ x # ret

\* C9: for every non-negative finite argument (bits 0x00000000..0x7F7FFFFF)
\* the float sqrt_approx returns has its sign bit clear.
C9_SignBitClear ==
    (fn = "sqrt_approx" /\ outcome = "returned" /\ arg.hi < 32640) =>
        ret.hi < 32768

\* C10: whenever sqrt_approx returns, the bits returned are neither
\* 0x00000000 nor 0x80000000, and the seed x that sqrt_3 divides by in its
\* first update is not a zero.
C10_SeedNotZero ==
    /\ (fn = "sqrt_approx" /\ outcome = "returned") =>
          ~(ret.lo = 0 /\ ret.hi \in {0, 32768})
    /\ (fn = "sqrt_3" /\ fpc = "sqrt3_iter1") =>
          ~(x.lo = 0 /\ x.hi \in {0, 32768})

\* sqrt_3(0.0f) is about to divide by the seed 0x9FC00000
C10_Witness ==
    /\ fn = "sqrt_3" /\ fpc = "sqrt3_iter1"
    /\ arg = W(0, 0) /\ x = W(40896, 0)

(***************************************************************************)
(* Properties of main (checked under Spec and SpecFixed)                   *)
(***************************************************************************)
\* the sum and the number of the durations the block measured
RECURSIVE SumOver(_, _)
SumOver(f, S) ==
    IF S = {} THEN 0
    ELSE LET d == CHOOSE e \in S : TRUE
         IN  d * f[d] + SumOver(f, S \ {d})

RECURSIVE CountOver(_, _)
CountOver(f, S) ==
    IF S = {} THEN 0
    ELSE LET d == CHOOSE e \in S : TRUE
         IN  f[d] + CountOver(f, S \ {d})

MeasuredSum   == SumOver(measured, Durations)
MeasuredCount == CountOver(measured, Durations)

\* a report has just been written: its last line is the last line of out,
\* and measured still holds the durations of the block reported
JustReported ==
    \/ pc = "block_enter" /\ block > 1
    \/ pc = "final_newline"

ReportedAverage == out[Len(out)].runtime

\* q is s / n with the fraction dropped (rounded toward zero)
IsTruncatedQuotient(q, s, n) ==
    \E r \in (1 - n) .. (n - 1) :
        /\ s = q * n + r
        /\ r = 0 \/ ((r > 0) <=> (s > 0))

LabelsOf(o) == SelectSeq(o, LAMBDA l : l.kind = "label")
Reports == Len(LabelsOf(out))

\* what strategy k returns for (float)num
ExpectedResult(k) ==
    CASE k = 1 -> Pow05(IntToFloat(num))
      [] k = 2 -> FSqrt(IntToFloat(num))
      [] k = 3 -> NewtonStep(IntToFloat(num),
                     NewtonStep(IntToFloat(num),
                        ApproxAdd(ApproxShr(ApproxSub(IntToFloat(num))))))

ExpectedLabel(k) ==
    CASE k = 1 -> "math.h pow function"
      [] k = 2 -> "cmath sqrt function"
      [] k = 3 -> "Newton's Method"

\* lines 4k-3 .. 4k of out are the report of strategy k
IsReport(k) ==
    /\ out[4 * k - 3].kind = "blank"
    /\ out[4 * k - 2].kind = "label" /\ out[4 * k - 2].method = ExpectedLabel(k)
    /\ out[4 * k - 1].kind = "sqrt" /\ out[4 * k - 1].num = num
    /\ out[4 * k - 1].result = ExpectedResult(k)
    /\ out[4 * k].kind = "runtime"

\* C4: with a non-negative input the output is the reports of sqrt_1, sqrt_2
\* and sqrt_3 in this order, report k is there only once strategy k has made
\* all its test_runs calls, strategy k+1 is called only once report k is
\* there, and main returns 0 with exactly the three reports and one blank
\* line after them.
C4_ThreeReportsInOrder ==
    num >= 0 =>
        /\ exit # "terminate"
        /\ Reports <= 3
        /\ Len(out) \in {4 * Reports, 13}
        /\ Len(out) = 13 => (Reports = 3 /\ out[13] = BlankLine)
        /\ \A k \in 1 .. Reports : IsReport(k) /\ calls[k] = test_runs
        /\ \A k \in 2 .. 3 : calls[k] > 0 => Reports >= k - 1
        /\ \A k \in 1 .. 3 : (calls[k] > 0 /\ calls[k] < test_runs) => Reports = k - 1
        /\ exit = "exit0" => Len(out) = 13

\* main has returned 0 for the input 0, where sqrt_3 gives 0x9EC00000 and
\* the other two give 0
C4_Witness ==
    /\ exit = "exit0" /\ num = 0 /\ test_runs = 2
    /\ Len(out) = 13 /\ out[11].result = W(40640, 0)

\* C5: with a negative input the first strategy call throws and main ends
\* there: one call made in all, no report written, nothing runs afterwards,
\* and main never returns 0.
C5_FailureEndsRun ==
    /\ num < 0 =>
          /\ exit # "exit0"
          /\ out = <<>>
          /\ calls[1] <= 1 /\ calls[2] = 0 /\ calls[3] = 0
          /\ calls[1] = 1 => (exit = "terminate" /\ pc = "done")
    /\ exit = "terminate" =>
          /\ num < 0
          /\ reads = <<1, 0, 0>> /\ adds = <<0, 0, 0>>
          /\ ~ENABLED Next

\* sqrt_1(-1) has thrown in the first iteration of the first block
C5_Witness ==
    /\ exit = "terminate" /\ num = -1 /\ test_runs = 2
    /\ calls = <<1, 0, 0>> /\ out = <<>>

\* C6: in a block that is not cut short by a throw, the strategy is called
\* test_runs times one after another; call number i+1 comes right after clock
\* read 2i+1 and right before clock read 2i+2, and duration i+1 is added to
\* the total before clock read 2i+3.
C6_TimedCalls ==
    exit # "terminate" =>
        /\ i <= test_runs
        /\ \A k \in 1 .. 3 :
              /\ k < block =>
                    calls[k] = test_runs /\ reads[k] = 2 * test_runs
                                         /\ adds[k] = test_runs
              /\ k > block => calls[k] = 0 /\ reads[k] = 0 /\ adds[k] = 0
        /\ pc = "block_enter" =>
              calls[block] = 0 /\ reads[block] = 0 /\ adds[block] = 0
        /\ pc \in {"loop_test", "time_start"} =>
              calls[block] = i /\ reads[block] = 2 * i /\ adds[block] = i
        /\ pc = "call" =>
              calls[block] = i /\ reads[block] = 2 * i + 1 /\ adds[block] = i
        /\ pc = "time_stop" =>
              calls[block] = i + 1 /\ reads[block] = 2 * i + 1 /\ adds[block] = i
        /\ pc = "accumulate" =>
              calls[block] = i + 1 /\ reads[block] = 2 * i + 2 /\ adds[block] = i
        /\ pc \in {"print", "final_newline", "return", "done"} =>
              calls[block] = test_runs /\ reads[block] = 2 * test_runs
                                       /\ adds[block] = test_runs

\* the second call of the second block has been timed and not yet added
C6_Witness ==
    /\ pc = "accumulate" /\ block = 2 /\ i = 1 /\ test_runs = 2
    /\ calls = <<2, 2, 0>> /\ reads = <<4, 4, 0>> /\ adds = <<2, 1, 0>>

\* the guard of one of the statements of main holds
MainCanStep ==
    \/ pc \in {"block_enter", "loop_test", "call", "accumulate", "print",
               "final_newline", "return"}
    \/ pc \in {"time_start", "time_stop"} /\ now_values # {}

\* the statements main still has to execute
StepsLeft ==
    LET perBlock == 5 * test_runs + 3
        after    == (3 - block) * perBlock + 2
    IN  CASE pc = "block_enter"   -> perBlock + after
          [] pc = "loop_test"     -> 5 * (test_runs - i) + 2 + after
          [] pc = "time_start"    -> 5 * (test_runs - i) + 1 + after
          [] pc = "call"          -> 5 * (test_runs - i) + after
          [] pc = "time_stop"     -> 5 * (test_runs - i) - 1 + after
          [] pc = "accumulate"    -> 5 * (test_runs - i) - 2 + after
          [] pc = "print"         -> 1 + after
          [] pc = "final_newline" -> 2
          [] pc = "return"        -> 1
          [] pc = "done"          -> 0

\* C7: with num = 42 and test_runs = 10000, whatever argc is, main
\* terminates: until it has ended the next statement can run, every statement
\* run leaves fewer statements to run, and main ends by returning 0 after
\* 10000 calls in each of the three loops and the three reports.
C7_FixedRunTerminates ==
    /\ [](/\ StepsLeft >= 0
          /\ pc # "done" => MainCanStep
          /\ pc = "done" =>
                /\ exit = "exit0"
                /\ calls = <<FixedRuns, FixedRuns, FixedRuns>>
                /\ Reports = 3 /\ Len(out) = 13)
    /\ [][StepsLeft' < StepsLeft]_vars

\* main has returned 0 after its 30000 calls
C7_Witness ==
    /\ exit = "exit0" /\ num = 42 /\ test_runs = 10000 /\ argc = 2
    /\ calls = <<10000, 10000, 10000>> /\ Reports = 3

====
